---- MODULE Spec2Model ----
(***************************************************************************)
(* Model of the PipelineRun status metrics of kueue-metrics:               *)
(*   - the pull-mode exporter (PipelineRun_exporter.go): the Prometheus    *)
(*     collector PipelineRunCollector.Collect and its two helpers          *)
(*     getPipelineRunStatus and getBuildPlatformLabel;                     *)
(*   - the reactive controller (pipelinerun_metrics_controller):           *)
(*     PipelineRunMetricsReconciler.Reconcile, which drives the metric     *)
(*     store of package cel.                                               *)
(***************************************************************************)
EXTENDS Integers, Sequences, FiniteSets, TLC

VARIABLES
    pr,             \* classifier run: the PipelineRun handed to the helpers
    currentStatus,  \* classifier run: result of getPipelineRunStatus
    platformLabel,  \* classifier run: result of getBuildPlatformLabel
    classified,     \* classifier run: the helpers have returned
    prList,         \* Collect: outcome of the List call of the last scrape
    ch,             \* Collect: metrics sent on the channel by the last scrape
    collectOutcome, \* Collect: how the last scrape ended
    prevEmitted,    \* identities the scrape before the last one emitted
    cluster,        \* the PipelineRun objects the API client can Get
    store,          \* the metric store of package cel: identity -> record
    pc,             \* Reconcile: position of each worker
    req,            \* Reconcile: the request each worker is processing
    got,            \* Reconcile: what r.Get returned to each worker
    overtaken,      \* Reconcile: a remove of the worker's identity was
                    \* applied after its r.Get returned
    goneAtGet,      \* Reconcile: the object did not exist when r.Get ran
    last            \* the last reconciliation that returned

vars == <<pr, currentStatus, platformLabel, classified,
          prList, ch, collectOutcome, prevEmitted,
          cluster, store, pc, req, got, overtaken, goneAtGet, last>>

reconcileVars == <<cluster, store, pc, req, got, overtaken, goneAtGet, last>>

classifyVars == <<pr, currentStatus, platformLabel, classified>>
collectVars == <<prList, ch, collectOutcome, prevEmitted>>

(***************************************************************************)
(* Bounds of the model.                                                    *)
(***************************************************************************)
MaxConds == 2

(***************************************************************************)
(* Constants of the program.                                               *)
(***************************************************************************)
\* v1.PipelineRunReasonSucceeded, v1.PipelineRunReasonPending and
\* v1.PipelineRunSpecStatusPending of the Tekton API, by value.
PipelineRunReasonSucceeded == "Succeeded"
PipelineRunReasonPending == "PipelineRunPending"
PipelineRunSpecStatusPending == "PipelineRunPending"

allPossibleStates ==
    << "Succeeded", "Failed", "Running", "PipelineRunPending",
       "PipelineRunCancelled", PipelineRunReasonPending, "Unknown" >>

BuildPlatformsParam == "build-platforms"

Range(s) == { s[i] : i \in 1..Len(s) }

(***************************************************************************)
(* The data the program reads: PipelineRun objects.                        *)
(***************************************************************************)
Identities ==
    { [namespace |-> "ns1", name |-> "a"], [namespace |-> "ns1", name |-> "b"] }

ConditionTypes == { "Succeeded", "Ready" }
ConditionStatuses == { "True", "False", "Unknown" }
\* Reasons Tekton reports (README); "Cancelled" is no member of
\* allPossibleStates.
Reasons == { "Succeeded", "Running", "Cancelled" }

Conditions ==
    [ type : ConditionTypes, status : ConditionStatuses, reason : Reasons ]

RECURSIVE SeqsUpTo(_, _)
SeqsUpTo(S, n) ==
    IF n = 0 THEN { << >> }
    ELSE LET shorter == SeqsUpTo(S, n - 1)
         IN  shorter \cup { Append(s, x) : s \in shorter, x \in S }

SpecStatuses == { "", PipelineRunSpecStatusPending }

ParamLists ==
    { << >>,
      << [name |-> "git-url", arrayVal |-> << >>] >>,
      << [name |-> BuildPlatformsParam, arrayVal |-> << >>] >>,
      << [name |-> BuildPlatformsParam,
          arrayVal |-> << "linux/arm64", "linux/amd64" >>] >>,
      << [name |-> BuildPlatformsParam,
          arrayVal |-> << "linux/amd64", "linux/arm64", "linux/s390x" >>] >>,
      << [name |-> "git-url", arrayVal |-> << >>],
         [name |-> BuildPlatformsParam,
          arrayVal |-> << "linux/amd64", "linux/arm64" >>],
         [name |-> BuildPlatformsParam, arrayVal |-> << "linux/s390x" >>] >> }

\* deletionTimestamp is TRUE when ObjectMeta.DeletionTimestamp is set.
PipelineRunsWith(id, condLists, paramLists, deletions) ==
    [ namespace : { id.namespace }, name : { id.name },
      conditions : condLists, specStatus : SpecStatuses,
      deletionTimestamp : deletions, params : paramLists ]

PipelineRunsOf(id, condLists, paramLists) ==
    PipelineRunsWith(id, condLists, paramLists, { FALSE })

NoRun ==
    [ namespace |-> "", name |-> "", conditions |-> << >>, specStatus |-> "",
      deletionTimestamp |-> FALSE, params |-> << >> ]

(***************************************************************************)
(* Helper functions of the exporter.                                       *)
(***************************************************************************)
IsPending(p) == p.specStatus = PipelineRunSpecStatusPending

\* The loop over pr.Status.Conditions: the first condition whose type is
\* v1.PipelineRunReasonSucceeded ends the loop with its reason.
RECURSIVE ScanConditions(_, _)
ScanConditions(conds, i) ==
    IF i > Len(conds) THEN [found |-> FALSE, reason |-> ""]
    ELSE IF conds[i].type = PipelineRunReasonSucceeded
         THEN [found |-> TRUE, reason |-> conds[i].reason]
         ELSE ScanConditions(conds, i + 1)

\* Mutant of getPipelineRunStatus: only a condition with a definite status
\* (True or False) ends the loop.
RECURSIVE ScanDefiniteConditions(_, _)
ScanDefiniteConditions(conds, i) ==
    IF i > Len(conds) THEN [found |-> FALSE, reason |-> ""]
    ELSE IF /\ conds[i].type = PipelineRunReasonSucceeded
            /\ conds[i].status \in { "True", "False" }
         THEN [found |-> TRUE, reason |-> conds[i].reason]
         ELSE ScanDefiniteConditions(conds, i + 1)

getPipelineRunStatusDefiniteOnly(p) ==
    LET hit == ScanDefiniteConditions(p.conditions, 1)
    IN  IF hit.found THEN hit.reason
        ELSE IF IsPending(p) THEN PipelineRunReasonPending
        ELSE "Unknown"

\* Mutant: the pending indicator is not looked at.
getPipelineRunStatusWithoutPending(p) ==
    LET hit == ScanConditions(p.conditions, 1)
    IN  IF hit.found THEN hit.reason ELSE "Unknown"

\* Mutant: the loop does not return at the first match; the last one stays.
RECURSIVE ScanConditionsToEnd(_, _, _)
ScanConditionsToEnd(conds, i, hit) ==
    IF i > Len(conds) THEN hit
    ELSE IF conds[i].type = PipelineRunReasonSucceeded
         THEN ScanConditionsToEnd(conds, i + 1,
                                  [found |-> TRUE, reason |-> conds[i].reason])
         ELSE ScanConditionsToEnd(conds, i + 1, hit)

getPipelineRunStatusLastMatch(p) ==
    LET hit == ScanConditionsToEnd(p.conditions, 1,
                                   [found |-> FALSE, reason |-> ""])
    IN  IF hit.found THEN hit.reason
        ELSE IF IsPending(p) THEN PipelineRunReasonPending
        ELSE "Unknown"

getPipelineRunStatus(p) ==
    LET hit == IF Len(p.conditions) > 0
               THEN ScanConditions(p.conditions, 1)
               ELSE [found |-> FALSE, reason |-> ""]
    IN  IF hit.found THEN hit.reason
        ELSE IF IsPending(p) THEN PipelineRunReasonPending
        ELSE "Unknown"

\* strings.Join(elems, sep)
RECURSIVE Join(_, _)
Join(elems, sep) ==
    IF Len(elems) = 0 THEN ""
    ELSE IF Len(elems) = 1 THEN elems[1]
    ELSE elems[1] \o sep \o Join(Tail(elems), sep)

RECURSIVE ScanParams(_, _)
ScanParams(params, i) ==
    IF i > Len(params) THEN ""
    ELSE IF params[i].name = BuildPlatformsParam
         THEN Join(params[i].arrayVal, ",")
         ELSE ScanParams(params, i + 1)

\* Mutant of getBuildPlatformLabel: only the first value of the array.
RECURSIVE ScanParamsFirstValue(_, _)
ScanParamsFirstValue(params, i) ==
    IF i > Len(params) THEN ""
    ELSE IF params[i].name = BuildPlatformsParam
         THEN IF Len(params[i].arrayVal) = 0 THEN ""
              ELSE params[i].arrayVal[1]
         ELSE ScanParamsFirstValue(params, i + 1)

getBuildPlatformLabelFirstValue(p) == ScanParamsFirstValue(p.params, 1)

getBuildPlatformLabel(p) == ScanParams(p.params, 1)

(***************************************************************************)
(* Reactive mode: the metric store of package cel and Reconcile.           *)
(***************************************************************************)
Workers == { 1, 2 }

IdOf(p) == [namespace |-> p.namespace, name |-> p.name]

NoRecord == [present |-> FALSE, label |-> "", build_platform |-> ""]

\* cel.UpdatePipelineRunStatusMetric(&pr): classify the PipelineRun and put
\* the record under its identity, replacing the record it had.
UpdatePipelineRunStatusMetric(st, p) ==
    [ st EXCEPT ![IdOf(p)] =
        [ present |-> TRUE, label |-> getPipelineRunStatus(p),
          build_platform |-> getBuildPlatformLabel(p) ] ]

\* cel.DeletePipelineRunStatusMetricByNamespacedName(req.NamespacedName):
\* remove the record of the identity; no record, no effect.
DeletePipelineRunStatusMetricByNamespacedName(st, nn) ==
    [ st EXCEPT ![nn] = NoRecord ]

\* cel.DeletePipelineRunStatusMetric(&pr): the same, keyed by the object.
DeletePipelineRunStatusMetric(st, p) ==
    DeletePipelineRunStatusMetricByNamespacedName(st, IdOf(p))

\* What r.Get(ctx, req.NamespacedName, &pr) can return.
GetNotFound == [err |-> "NotFound", pr |-> NoRun]
GetFailed == [err |-> "Transient", pr |-> NoRun]
GetOk(p) == [err |-> "", pr |-> p]

\* Mutants of Reconcile.
\* The terminating check is missing: a terminating object is updated.
ReconcileWithoutDeletionCheck(st, request, g) ==
    IF g.err # ""
    THEN IF g.err = "NotFound"
         THEN [ store |-> DeletePipelineRunStatusMetricByNamespacedName(st, request),
                err |-> FALSE,
                calls |-> << "DeletePipelineRunStatusMetricByNamespacedName" >> ]
         ELSE [ store |-> st, err |-> TRUE, calls |-> << >> ]
    ELSE [ store |-> UpdatePipelineRunStatusMetric(st, g.pr), err |-> FALSE,
           calls |-> << "UpdatePipelineRunStatusMetric" >> ]

\* Not-found updates the metric from the zero-valued local pr before it
\* cleans up, and reports an error when there was nothing to clean up.
ReconcileStrictCleanup(st, request, g) ==
    IF g.err # ""
    THEN IF g.err = "NotFound"
         THEN [ store |-> DeletePipelineRunStatusMetricByNamespacedName(st, request),
                err |-> ~st[request].present,
                calls |-> << "UpdatePipelineRunStatusMetric",
                             "DeletePipelineRunStatusMetricByNamespacedName" >> ]
         ELSE [ store |-> st, err |-> TRUE, calls |-> << >> ]
    ELSE IF g.pr.deletionTimestamp
    THEN [ store |-> DeletePipelineRunStatusMetric(st, g.pr), err |-> FALSE,
           calls |-> << "DeletePipelineRunStatusMetric" >> ]
    ELSE [ store |-> UpdatePipelineRunStatusMetric(st, g.pr), err |-> FALSE,
           calls |-> << "UpdatePipelineRunStatusMetric" >> ]

\* Every lookup error is taken for not-found: the metric is cleaned up.
ReconcileCleanupOnAnyError(st, request, g) ==
    IF g.err # ""
    THEN [ store |-> DeletePipelineRunStatusMetricByNamespacedName(st, request),
           err |-> g.err # "NotFound",
           calls |-> << "DeletePipelineRunStatusMetricByNamespacedName" >> ]
    ELSE IF g.pr.deletionTimestamp
    THEN [ store |-> DeletePipelineRunStatusMetric(st, g.pr), err |-> FALSE,
           calls |-> << "DeletePipelineRunStatusMetric" >> ]
    ELSE [ store |-> UpdatePipelineRunStatusMetric(st, g.pr), err |-> FALSE,
           calls |-> << "UpdatePipelineRunStatusMetric" >> ]

\* The metric is set on the first observation only.
ReconcileCreateOnly(st, request, g) ==
    IF g.err # ""
    THEN IF g.err = "NotFound"
         THEN [ store |-> DeletePipelineRunStatusMetricByNamespacedName(st, request),
                err |-> FALSE,
                calls |-> << "DeletePipelineRunStatusMetricByNamespacedName" >> ]
         ELSE [ store |-> st, err |-> TRUE, calls |-> << >> ]
    ELSE IF g.pr.deletionTimestamp
    THEN [ store |-> DeletePipelineRunStatusMetric(st, g.pr), err |-> FALSE,
           calls |-> << "DeletePipelineRunStatusMetric" >> ]
    ELSE IF st[request].present
    THEN [ store |-> st, err |-> FALSE, calls |-> << >> ]
    ELSE [ store |-> UpdatePipelineRunStatusMetric(st, g.pr), err |-> FALSE,
           calls |-> << "UpdatePipelineRunStatusMetric" >> ]

\* The cleanup of a terminating object drops the records of every identity.
ReconcileResettingStore(st, request, g) ==
    IF g.err # ""
    THEN IF g.err = "NotFound"
         THEN [ store |-> DeletePipelineRunStatusMetricByNamespacedName(st, request),
                err |-> FALSE,
                calls |-> << "DeletePipelineRunStatusMetricByNamespacedName" >> ]
         ELSE [ store |-> st, err |-> TRUE, calls |-> << >> ]
    ELSE IF g.pr.deletionTimestamp
    THEN [ store |-> [id \in DOMAIN st |-> NoRecord], err |-> FALSE,
           calls |-> << "DeletePipelineRunStatusMetric" >> ]
    ELSE [ store |-> UpdatePipelineRunStatusMetric(st, g.pr), err |-> FALSE,
           calls |-> << "UpdatePipelineRunStatusMetric" >> ]

\* Not-found is ignored (the client.IgnoreNotFound idiom): no cleanup.
ReconcileIgnoringNotFound(st, request, g) ==
    IF g.err # ""
    THEN IF g.err = "NotFound"
         THEN [ store |-> st, err |-> FALSE, calls |-> << >> ]
         ELSE [ store |-> st, err |-> TRUE, calls |-> << >> ]
    ELSE IF g.pr.deletionTimestamp
    THEN [ store |-> DeletePipelineRunStatusMetric(st, g.pr), err |-> FALSE,
           calls |-> << "DeletePipelineRunStatusMetric" >> ]
    ELSE [ store |-> UpdatePipelineRunStatusMetric(st, g.pr), err |-> FALSE,
           calls |-> << "UpdatePipelineRunStatusMetric" >> ]

\* Reconcile after r.Get has returned g: the store it leaves, the error it
\* returns (the ctrl.Result is always empty: no requeue is asked for) and the
\* calls it makes into package cel, in order.
Reconcile(st, request, g) ==
    IF g.err # ""
    THEN IF g.err = "NotFound"
         THEN [ store |-> DeletePipelineRunStatusMetricByNamespacedName(st, request),
                err |-> FALSE,
                calls |-> << "DeletePipelineRunStatusMetricByNamespacedName" >> ]
         ELSE [ store |-> st, err |-> TRUE, calls |-> << >> ]
    ELSE IF g.pr.deletionTimestamp
    THEN [ store |-> DeletePipelineRunStatusMetric(st, g.pr), err |-> FALSE,
           calls |-> << "DeletePipelineRunStatusMetric" >> ]
    ELSE [ store |-> UpdatePipelineRunStatusMetric(st, g.pr), err |-> FALSE,
           calls |-> << "UpdatePipelineRunStatusMetric" >> ]

\* The signal a Get result carries.
SignalOf(g) ==
    IF g.err = "NotFound" THEN "hardDelete"
    ELSE IF g.err # "" THEN "error"
    ELSE IF g.pr.deletionTimestamp THEN "softDelete"
    ELSE "observe"

NoObject == [exists |-> FALSE, obj |-> NoRun]

NoLast ==
    [ id |-> [namespace |-> "", name |-> ""], signal |-> "none", label |-> "",
      hadRecord |-> FALSE, repeated |-> FALSE, overtaken |-> FALSE,
      goneAtGet |-> FALSE, relabelled |-> FALSE,
      err |-> FALSE, calls |-> << >> ]

ReconcileIdle ==
    /\ cluster = [id \in Identities |-> NoObject]
    /\ store = [id \in Identities |-> NoRecord]
    /\ pc = [w \in Workers |-> "idle"]
    /\ req = [w \in Workers |-> [namespace |-> "", name |-> ""]]
    /\ got = [w \in Workers |-> GetFailed]
    /\ overtaken = [w \in Workers |-> FALSE]
    /\ goneAtGet = [w \in Workers |-> FALSE]
    /\ last = NoLast

(***************************************************************************)
(* The PipelineRuns the helpers are run on, and the idle collector.        *)
(***************************************************************************)
ClassifierInputs ==
    UNION { PipelineRunsOf(id, SeqsUpTo(Conditions, MaxConds), ParamLists) :
            id \in { [namespace |-> "ns1", name |-> "a"] } }

NoList == [err |-> FALSE, items |-> << >>]

CollectIdle ==
    /\ prList = NoList
    /\ ch = << >>
    /\ collectOutcome = "none"
    /\ prevEmitted = {}

(***************************************************************************)
(* Pull mode: PipelineRunCollector.Collect.                                *)
(***************************************************************************)
\* The conditions of the PipelineRuns the controller is handed.
ReconciledConditionLists ==
    { << >>,
      << [type |-> "Succeeded", status |-> "Unknown", reason |-> "Running"] >> }

\* The PipelineRuns a List call may return for one identity.
ListedConditionLists ==
    { << >>,
      << [type |-> "Succeeded", status |-> "True", reason |-> "Succeeded"] >>,
      << [type |-> "Succeeded", status |-> "Unknown", reason |-> "Running"] >>,
      << [type |-> "Ready", status |-> "True", reason |-> "Succeeded"],
         [type |-> "Succeeded", status |-> "False", reason |-> "Cancelled"] >> }

ListedParamLists ==
    { << >>,
      << [name |-> BuildPlatformsParam,
          arrayVal |-> << "linux/amd64", "linux/arm64" >>] >> }

ListedRuns(id) == PipelineRunsOf(id, ListedConditionLists, ListedParamLists)

IdA == [namespace |-> "ns1", name |-> "a"]
IdB == [namespace |-> "ns1", name |-> "b"]

\* Items of a listing, in the key order the API server returns them.
Listings ==
    { a \o b : a \in { << >> } \cup { << p >> : p \in ListedRuns(IdA) },
               b \in { << >> } \cup { << p >> : p \in ListedRuns(IdB) } }

\* List returns (prList, err); with an error the list may be partly filled.
ListResults ==
    [ err : { FALSE }, items : Listings ]
        \cup [ err : { TRUE },
               items : { l \in Listings :
                           \A i \in 1..Len(l) :
                               /\ l[i].conditions = << >>
                               /\ l[i].params = << >>
                               /\ l[i].specStatus = "" } ]

\* prometheus.MustNewConstMetric(c.prStatusDesc, prometheus.GaugeValue, value,
\*                               pr.Namespace, pr.Name, state, platformLabel)
ConstMetric(p, state, platform, value) ==
    [ valueType |-> "GaugeValue", value |-> value,
      namespace |-> p.namespace, name |-> p.name,
      status |-> state, build_platform |-> platform ]

\* The inner loop of Collect over allPossibleStates for one PipelineRun.
StateSetRows(p) ==
    LET status == getPipelineRunStatus(p)
        platform == getBuildPlatformLabel(p)
    IN  [ i \in 1..Len(allPossibleStates) |->
            ConstMetric(p, allPossibleStates[i], platform,
                        IF allPossibleStates[i] = status THEN 1 ELSE 0) ]

\* The outer loop of Collect over prList.Items.
RECURSIVE EmitItems(_, _)
EmitItems(items, i) ==
    IF i > Len(items) THEN << >>
    ELSE StateSetRows(items[i]) \o EmitItems(items, i + 1)

\* NewConstMetric refuses a label value that is not valid UTF-8, and
\* MustNewConstMetric panics on the refusal.
InvalidLabelValues == { "linux/<0xff>" }

ValidLabelValue(v) == v \notin InvalidLabelValues

Constructible(m) ==
    /\ ValidLabelValue(m.namespace)
    /\ ValidLabelValue(m.name)
    /\ ValidLabelValue(m.status)
    /\ ValidLabelValue(m.build_platform)

\* The metrics that reach the channel: those before the first panic.
RECURSIVE SentBeforePanic(_, _)
SentBeforePanic(rows, i) ==
    IF i > Len(rows) \/ ~Constructible(rows[i]) THEN << >>
    ELSE << rows[i] >> \o SentBeforePanic(rows, i + 1)

\* Mutants of CollectRows.
CollectRowsIgnoringErr(result) ==
    SentBeforePanic(EmitItems(result.items, 1), 1)

CollectRowsSkippingUnconditioned(result) ==
    IF result.err THEN << >>
    ELSE SentBeforePanic(
             EmitItems(SelectSeq(result.items,
                                 LAMBDA p : Len(p.conditions) > 0), 1), 1)

\* What one call of Collect sends on the channel.
CollectRows(result) ==
    IF result.err THEN << >>
    ELSE SentBeforePanic(EmitItems(result.items, 1), 1)

\* How one call of Collect ends.
CollectOutcome(result) ==
    LET rows == IF result.err THEN << >> ELSE EmitItems(result.items, 1)
    IN  IF \E k \in 1..Len(rows) : ~Constructible(rows[k])
        THEN "panicked"
        ELSE "returned"

(***************************************************************************)
(* A run of the two helpers on one PipelineRun.                            *)
(***************************************************************************)
InitClassify ==
    /\ pr \in ClassifierInputs
    /\ currentStatus = ""
    /\ platformLabel = ""
    /\ classified = FALSE
    /\ CollectIdle
    /\ ReconcileIdle

Classify ==
    /\ ~classified
    /\ currentStatus' = getPipelineRunStatus(pr)
    /\ platformLabel' = getBuildPlatformLabel(pr)
    /\ classified' = TRUE
    /\ ch' = SentBeforePanic(StateSetRows(pr), 1)
    /\ UNCHANGED <<pr, prList, collectOutcome, prevEmitted, reconcileVars>>

NextClassify == Classify

SpecClassify == InitClassify /\ [][NextClassify]_vars


RowIds(rows) ==
    { [namespace |-> rows[k].namespace, name |-> rows[k].name] :
        k \in 1..Len(rows) }

ItemIds(items) ==
    { [namespace |-> items[k].namespace, name |-> items[k].name] :
        k \in 1..Len(items) }

ClassifyIdle ==
    /\ pr = NoRun
    /\ currentStatus = ""
    /\ platformLabel = ""
    /\ classified = FALSE

InitCollect ==
    /\ CollectIdle
    /\ ClassifyIdle
    /\ ReconcileIdle

Collect ==
    \E result \in ListResults :
        /\ prList' = result
        /\ ch' = CollectRows(result)
        /\ collectOutcome' = CollectOutcome(result)
        /\ prevEmitted' = RowIds(ch)
        /\ UNCHANGED <<classifyVars, reconcileVars>>

NextCollect == Collect

SpecCollect == InitCollect /\ [][NextCollect]_vars

\* Listings with a PipelineRun whose build-platforms value cannot be made a
\* label value.
UnlabelableParamLists ==
    { << >>,
      << [name |-> BuildPlatformsParam, arrayVal |-> << "linux/<0xff>" >>] >> }

UnlabelableListings ==
    { a \o b :
        a \in { << >> } \cup
              { << p >> : p \in PipelineRunsOf(IdA, ReconciledConditionLists,
                                               UnlabelableParamLists) },
        b \in { << >> } \cup
              { << p >> : p \in PipelineRunsOf(IdB, ReconciledConditionLists,
                                               UnlabelableParamLists) } }

CollectUnlabelable ==
    \E result \in [ err : { FALSE }, items : UnlabelableListings ] :
        /\ prList' = result
        /\ ch' = CollectRows(result)
        /\ collectOutcome' = CollectOutcome(result)
        /\ prevEmitted' = RowIds(ch)
        /\ UNCHANGED <<classifyVars, reconcileVars>>

NextCollectUnlabelable == CollectUnlabelable

SpecCollectUnlabelable == InitCollect /\ [][NextCollectUnlabelable]_vars

(***************************************************************************)
(* Reactive mode: the cluster changes, the controller reconciles.          *)
(***************************************************************************)
ReconciledRuns(id) ==
    PipelineRunsWith(id, ReconciledConditionLists, { << >> }, { FALSE, TRUE })

\* A PipelineRun is created: it is not terminating.
CreateRun(id) ==
    /\ ~cluster[id].exists
    /\ \E p \in ReconciledRuns(id) :
        /\ ~p.deletionTimestamp
        /\ cluster' = [cluster EXCEPT ![id] = [exists |-> TRUE, obj |-> p]]
    /\ UNCHANGED <<store, pc, req, got, overtaken, goneAtGet, last>>

\* Its status or spec changes; a deletion timestamp, once set, stays.
UpdateRun(id) ==
    /\ cluster[id].exists
    /\ \E p \in ReconciledRuns(id) :
        /\ p.deletionTimestamp = cluster[id].obj.deletionTimestamp
        /\ p # cluster[id].obj
        /\ cluster' = [cluster EXCEPT ![id] = [exists |-> TRUE, obj |-> p]]
    /\ UNCHANGED <<store, pc, req, got, overtaken, goneAtGet, last>>

\* It is deleted while a finalizer holds it: it is terminating.
MarkRunDeleting(id) ==
    /\ cluster[id].exists
    /\ ~cluster[id].obj.deletionTimestamp
    /\ cluster' = [cluster EXCEPT ![id].obj.deletionTimestamp = TRUE]
    /\ UNCHANGED <<store, pc, req, got, overtaken, goneAtGet, last>>

\* It is gone.
RemoveRun(id) ==
    /\ cluster[id].exists
    /\ cluster' = [cluster EXCEPT ![id] = NoObject]
    /\ UNCHANGED <<store, pc, req, got, overtaken, goneAtGet, last>>

\* Reconcile, up to the return of r.Get. serial: the controller's work queue
\* hands a request to one worker at a time.
ReconcileGet(w, id, serial) ==
    /\ pc[w] = "idle"
    /\ serial => \A v \in Workers : pc[v] = "idle"
    /\ \E g \in { GetFailed,
                  IF cluster[id].exists THEN GetOk(cluster[id].obj)
                  ELSE GetNotFound } :
        got' = [got EXCEPT ![w] = g]
    /\ req' = [req EXCEPT ![w] = id]
    /\ pc' = [pc EXCEPT ![w] = "fetched"]
    /\ overtaken' = [overtaken EXCEPT ![w] = FALSE]
    /\ goneAtGet' = [goneAtGet EXCEPT ![w] = ~cluster[id].exists]
    /\ UNCHANGED <<cluster, store, last>>

\* Reconcile, from the return of r.Get to its own return.
ReconcileReturn(w) ==
    /\ pc[w] = "fetched"
    /\ LET out == Reconcile(store, req[w], got[w])
           signal == SignalOf(got[w])
       IN  /\ store' = out.store
           /\ last' =
                [ id |-> req[w], signal |-> signal,
                  label |-> IF signal = "observe"
                            THEN getPipelineRunStatus(got[w].pr) ELSE "",
                  hadRecord |-> store[req[w]].present,
                  repeated |-> last.id = req[w] /\ last.signal = signal,
                  overtaken |-> overtaken[w],
                  goneAtGet |-> goneAtGet[w],
                  relabelled |-> /\ signal = "observe"
                                 /\ store[req[w]].present
                                 /\ store[req[w]].label #
                                        getPipelineRunStatus(got[w].pr),
                  err |-> out.err, calls |-> out.calls ]
           /\ overtaken' =
                [ v \in Workers |->
                    IF v = w THEN FALSE
                    ELSE IF /\ signal \in { "softDelete", "hardDelete" }
                            /\ pc[v] = "fetched"
                            /\ req[v] = req[w]
                         THEN TRUE
                         ELSE overtaken[v] ]
    /\ pc' = [pc EXCEPT ![w] = "idle"]
    /\ UNCHANGED <<cluster, req, got, goneAtGet>>

ClusterStep(id) ==
    \/ CreateRun(id)
    \/ UpdateRun(id)
    \/ MarkRunDeleting(id)
    \/ RemoveRun(id)

Init ==
    /\ ReconcileIdle
    /\ ClassifyIdle
    /\ CollectIdle

Next ==
    \/ \E id \in Identities : ClusterStep(id) /\ UNCHANGED <<classifyVars, collectVars>>
    \/ \E id \in Identities : ReconcileGet(1, id, TRUE) /\ UNCHANGED <<classifyVars, collectVars>>
    \/ ReconcileReturn(1) /\ UNCHANGED <<classifyVars, collectVars>>

Spec == Init /\ [][Next]_vars

\* Reconciliations of one identity that overlap: no work queue between the
\* events and Reconcile.
NextRace ==
    \/ ClusterStep(IdA) /\ UNCHANGED <<classifyVars, collectVars>>
    \/ \E w \in Workers : ReconcileGet(w, IdA, FALSE) /\ UNCHANGED <<classifyVars, collectVars>>
    \/ \E w \in Workers : ReconcileReturn(w) /\ UNCHANGED <<classifyVars, collectVars>>

SpecRace == Init /\ [][NextRace]_vars

\* One identity under fair delivery: a reconciliation that has fetched
\* returns, and the work queue keeps handing the identity to Reconcile (watch
\* events, and the requeue of a request that returned an error) until a lookup
\* is answered by the API.
FairGet ==
    ReconcileGet(1, IdA, TRUE) /\ UNCHANGED <<classifyVars, collectVars>>

FairReturn ==
    ReconcileReturn(1) /\ UNCHANGED <<classifyVars, collectVars>>

GetAnswered == FairGet /\ got'[1].err # "Transient"

NextFair ==
    \/ ClusterStep(IdA) /\ UNCHANGED <<classifyVars, collectVars>>
    \/ FairGet
    \/ FairReturn

SpecFair ==
    /\ Init
    /\ [][NextFair]_vars
    /\ WF_vars(FairReturn)
    /\ SF_vars(GetAnswered)

(***************************************************************************)
(* Properties.                                                             *)
(***************************************************************************)
Scraped == collectOutcome # "none"

RowsOfRun(p) ==
    { k \in 1..Len(ch) : ch[k].namespace = p.namespace /\ ch[k].name = p.name }

\* C1: in the output of every Collect call, every listed PipelineRun has
\* exactly one row of value 1, the row whose status label is the label
\* getPipelineRunStatus returns, and all its other rows have value 0.
C1_StateSetInvariant ==
    (Scraped /\ ~prList.err) =>
        \A i \in 1..Len(prList.items) :
            LET p == prList.items[i]
                mine == RowsOfRun(p)
            IN  /\ Cardinality({ k \in mine : ch[k].value = 1 }) = 1
                /\ \A k \in mine :
                    /\ ch[k].value \in { 0, 1 }
                    /\ ch[k].value = 1 <=> ch[k].status = getPipelineRunStatus(p)

\* C4: the label getPipelineRunStatus returns is a member of the taxonomy
\* allPossibleStates, whatever reason the conditions carry.
C4_LabelInTaxonomy ==
    classified => currentStatus \in Range(allPossibleStates)

\* A scrape is reported as failed when Collect does not return normally or
\* sends an invalid metric carrying the error.
ScrapeReportedFailed ==
    \/ collectOutcome \notin { "none", "returned" }
    \/ \E k \in 1..Len(ch) : ch[k].valueType # "GaugeValue"

\* C5 (as claimed): when the listing fails, Collect reports the scrape as
\* failed; it never completes as a successful scrape.
C5_ListFailureReported ==
    (Scraped /\ prList.err) => ScrapeReportedFailed

\* C5 (amended): when the listing fails, Collect sends no metric at all, not
\* even for a partly filled list, and returns normally without reporting
\* the failure.
C5_ListFailureEmitsNothing ==
    (Scraped /\ prList.err) =>
        /\ ch = << >>
        /\ collectOutcome = "returned"
        /\ ~ScrapeReportedFailed

C5_Witness ==
    /\ Scraped
    /\ prList.err
    /\ Len(prList.items) > 0
    /\ prevEmitted # {}

\* C6: the identities that appear in the output of a scrape are exactly the
\* identities of the listing of that scrape, whatever the scrape before
\* emitted.
C6_RowsExactlyForListing ==
    (Scraped /\ ~prList.err) => RowIds(ch) = ItemIds(prList.items)

C6_Witness ==
    /\ Scraped
    /\ ~prList.err
    /\ IdB \in prevEmitted
    /\ ItemIds(prList.items) = { IdA }
    /\ RowIds(ch) = { IdA }

SucceededPositions(conds) ==
    { i \in 1..Len(conds) : conds[i].type = PipelineRunReasonSucceeded }

DefinitePositions(conds) ==
    { i \in SucceededPositions(conds) : conds[i].status \in { "True", "False" } }

\* C7 (as claimed): a Succeeded condition with status True or False gives
\* its reason; otherwise a pending run gives the Pending label; otherwise
\* Unknown.  A Succeeded condition of status Unknown does not count.
C7_DefiniteOutcomeDecides ==
    classified =>
        IF DefinitePositions(pr.conditions) # {}
        THEN \E i \in DefinitePositions(pr.conditions) :
                currentStatus = pr.conditions[i].reason
        ELSE IF IsPending(pr) THEN currentStatus = PipelineRunReasonPending
        ELSE currentStatus = "Unknown"

\* C7 (amended): a condition of type Succeeded, whatever its status, gives
\* the reason of the first such condition; otherwise a pending run gives
\* the Pending label; otherwise Unknown.
C7_SucceededTypeDecides ==
    classified =>
        LET at == SucceededPositions(pr.conditions)
        IN  IF at # {}
            THEN \E i \in at :
                    /\ \A j \in at : i <= j
                    /\ currentStatus = pr.conditions[i].reason
            ELSE IF IsPending(pr) THEN currentStatus = PipelineRunReasonPending
            ELSE currentStatus = "Unknown"

C7_Witness ==
    /\ classified
    /\ IsPending(pr)
    /\ Len(pr.conditions) = 2
    /\ pr.conditions[1].type = "Ready"
    /\ pr.conditions[2].type = "Succeeded"
    /\ pr.conditions[2].status = "Unknown"
    /\ currentStatus = pr.conditions[2].reason
    /\ currentStatus = "Running"

Removal == { "softDelete", "hardDelete" }

\* C2: after a reconciliation of an identity has been processed, the store
\* has a record of the identity exactly when the signal was an observation
\* of a live object, and the record carries the label of that object.
C2_LastSignalDecidesRecord ==
    last.signal \in { "observe" } \cup Removal =>
        /\ store[last.id].present <=> last.signal = "observe"
        /\ last.signal = "observe" => store[last.id].label = last.label

C2_Witness ==
    /\ last.signal = "observe"
    /\ last.label = "Running"
    /\ store[last.id].present
    /\ \E id \in Identities :
        /\ id # last.id
        /\ ~cluster[id].exists
        /\ ~store[id].present
    /\ cluster[last.id].exists
    /\ cluster[last.id].obj.deletionTimestamp

C8_SoftDeleteRemoves ==
    last.signal = "softDelete" =>
        /\ ~store[last.id].present
        /\ last.calls = << "DeletePipelineRunStatusMetric" >>
        /\ ~last.err

C8_Witness ==
    /\ last.signal = "softDelete"
    /\ last.hadRecord
    /\ ~store[last.id].present
    /\ cluster[last.id].exists
    /\ cluster[last.id].obj.conditions # << >>

Returns(w) == pc[w] = "fetched" /\ pc'[w] = "idle"

\* C9: a reconciliation that finds the object gone and no record of it
\* returns no error, leaves the store as it was and makes no update call.
C9_NotFoundOnUnknownIsNoOp ==
    [][ \A w \in Workers :
          (Returns(w) /\ got[w].err = "NotFound" /\ ~store[req[w]].present) =>
              /\ store' = store
              /\ ~last'.err
              /\ "UpdatePipelineRunStatusMetric" \notin Range(last'.calls) ]_vars

C9_Witness ==
    /\ last.signal = "hardDelete"
    /\ ~last.hadRecord
    /\ ~last.err
    /\ ~store[last.id].present

\* C10: a removal signal (not found, or terminating) processed a second time
\* for the same identity leaves the store as the first left it, and both
\* reconciliations return no error.
C10_RemovalIdempotent ==
    [][ \A w \in Workers :
          ( /\ Returns(w)
            /\ SignalOf(got[w]) \in Removal
            /\ last.id = req[w]
            /\ last.signal = SignalOf(got[w]) ) =>
              /\ store' = store
              /\ ~last.err
              /\ ~last'.err ]_vars

C10_Witness ==
    /\ last.signal \in Removal
    /\ last.repeated
    /\ ~last.err
    /\ ~store[last.id].present

\* C11 (as claimed): once the object is gone, the first reconciliation of its
\* identity that looks it up afterwards leaves no record of it.
C11_OneReconciliationSuffices ==
    (last.signal # "none" /\ last.goneAtGet) => ~store[last.id].present

RecordOfGone(id) == ~cluster[id].exists /\ store[id].present

\* No record, no object, and no reconciliation in flight that read the
\* object while it existed.
Settled(id) ==
    /\ ~cluster[id].exists
    /\ ~store[id].present
    /\ \A w \in Workers :
        (pc[w] = "fetched" /\ req[w] = id) => got[w].err # ""

\* C11 (amended): once the object is gone, a reconciliation of its identity
\* whose lookup is answered not-found leaves no record of it (a lookup that
\* fails leaves the record for the retry); under fair delivery with lookups
\* that are eventually answered, a record of a gone object is eventually
\* removed, and once removed it stays removed for as long as the object does
\* not exist.
C11_StaleRecordRemoved ==
    /\ [][ \A w \in Workers :
             (Returns(w) /\ got[w].err = "NotFound") =>
                 ~store'[req[w]].present ]_vars
    /\ \A id \in Identities :
         RecordOfGone(id) ~> (~store[id].present \/ cluster[id].exists)
    /\ [][ \A id \in Identities :
             (Settled(id) /\ ~cluster'[id].exists) => Settled(id)' ]_vars

C11_Witness ==
    /\ last.signal = "hardDelete"
    /\ last.hadRecord
    /\ last.repeated = FALSE
    /\ ~store[last.id].present
    /\ ~cluster[last.id].exists

\* C12: a reconciliation whose lookup fails with an error other than
\* not-found leaves the store exactly as it was, makes no call into the
\* store and returns the error.
C12_TransientFailureKeepsStore ==
    [][ \A w \in Workers :
          (Returns(w) /\ got[w].err \notin { "", "NotFound" }) =>
              /\ store' = store
              /\ last'.err
              /\ last'.calls = << >> ]_vars

C12_Witness ==
    /\ last.signal = "error"
    /\ last.err
    /\ last.hadRecord
    /\ store[last.id].present
    /\ ~cluster[last.id].exists

\* C13: a reconciliation that observes a live object whose label differs
\* from the label of its record replaces the record: afterwards the record
\* of the identity carries the new label and not the old one.
C13_RelabelReplaces ==
    [][ \A w \in Workers :
          ( /\ Returns(w)
            /\ SignalOf(got[w]) = "observe"
            /\ store[req[w]].present
            /\ store[req[w]].label # getPipelineRunStatus(got[w].pr) ) =>
              /\ store'[req[w]].present
              /\ store'[req[w]].label = getPipelineRunStatus(got[w].pr)
              /\ store'[req[w]].label # store[req[w]].label
              /\ DOMAIN store' = Identities ]_vars

C13_Witness ==
    /\ last.signal = "observe"
    /\ last.relabelled
    /\ last.label = "Running"
    /\ store[last.id].label = "Running"

\* C19: a reconciliation of one identity, whatever its outcome, leaves the
\* records of every other identity as they were.
C19_OtherIdentitiesUntouched ==
    [][ \A w \in Workers :
          Returns(w) =>
              \A id \in Identities \ { req[w] } : store'[id] = store[id] ]_vars

C19_Witness ==
    /\ last.signal = "softDelete"
    /\ last.hadRecord
    /\ \E id \in Identities \ { last.id } : store[id].present

PendingWithoutConditions == classified /\ pr.conditions = << >> /\ IsPending(pr)

\* C14 (as claimed): a PipelineRun with no conditions and the pending
\* indicator set gets the label "Pending", a value of the taxonomy.
C14_PendingLabelLiteral ==
    PendingWithoutConditions =>
        /\ currentStatus = "Pending"
        /\ currentStatus \in Range(allPossibleStates)

\* C14 (amended): such a PipelineRun gets the label
\* v1.PipelineRunReasonPending, the string "PipelineRunPending", which is a
\* value of the taxonomy.
C14_PendingLabel ==
    PendingWithoutConditions =>
        /\ currentStatus = "PipelineRunPending"
        /\ \E i \in 1..Len(allPossibleStates) : allPossibleStates[i] = currentStatus

C14_Witness ==
    /\ PendingWithoutConditions
    /\ currentStatus = "PipelineRunPending"
    /\ pr.params # << >>

\* C15: when several conditions are of the type the classifier looks for,
\* the label is the reason of the first of them in the listed order, and
\* the conditions after it do not change the label.
C15_FirstMatchWins ==
    (classified /\ Cardinality(SucceededPositions(pr.conditions)) >= 2) =>
        \E i \in SucceededPositions(pr.conditions) :
            /\ \A j \in SucceededPositions(pr.conditions) : i <= j
            /\ currentStatus = pr.conditions[i].reason
            /\ \A tail \in SeqsUpTo(Conditions, 1) :
                getPipelineRunStatus(
                    [pr EXCEPT !.conditions =
                        SubSeq(pr.conditions, 1, i) \o tail]) = currentStatus

C15_Witness ==
    /\ classified
    /\ Len(pr.conditions) >= 2
    /\ pr.conditions[1] =
         [type |-> "Succeeded", status |-> "True", reason |-> "Succeeded"]
    /\ pr.conditions[2] =
         [type |-> "Succeeded", status |-> "False", reason |-> "Cancelled"]
    /\ currentStatus = "Succeeded"

BuildPlatformsPositions(params) ==
    { i \in 1..Len(params) : params[i].name = BuildPlatformsParam }

\* The first n values, each after the first preceded by a comma.
RECURSIVE CommaSeparated(_, _)
CommaSeparated(values, n) ==
    IF n = 0 THEN ""
    ELSE IF n = 1 THEN values[1]
    ELSE CommaSeparated(values, n - 1) \o "," \o values[n]

\* C16: the platform label is the empty string when no parameter is named
\* build-platforms, and otherwise the array values of the first such
\* parameter in their order with "," between them; every row sent for the
\* PipelineRun carries a build_platform label of that value.
C16_PlatformLabelJoined ==
    classified =>
        LET at == BuildPlatformsPositions(pr.params)
        IN  /\ at = {} => platformLabel = ""
            /\ at # {} =>
                 \E i \in at :
                    /\ \A j \in at : i <= j
                    /\ platformLabel =
                         CommaSeparated(pr.params[i].arrayVal,
                                        Len(pr.params[i].arrayVal))
            /\ Len(ch) = Len(allPossibleStates)
            /\ \A k \in 1..Len(ch) :
                 /\ "build_platform" \in DOMAIN ch[k]
                 /\ ch[k].build_platform = platformLabel

C16_Witness ==
    /\ classified
    /\ Len(pr.params) = 1
    /\ pr.params[1].arrayVal = << "linux/amd64", "linux/arm64", "linux/s390x" >>
    /\ platformLabel = "linux/amd64,linux/arm64,linux/s390x"
    /\ Len(ch) = Len(allPossibleStates)
    /\ \A k \in 1..Len(ch) :
         ch[k].build_platform = "linux/amd64,linux/arm64,linux/s390x"

\* A PipelineRun all of whose metrics can be constructed.
WellFormed(p) ==
    \A k \in 1..Len(StateSetRows(p)) : Constructible(StateSetRows(p)[k])

C18_DistinctLabelTuples ==
    (Scraped /\ ~prList.err /\ Len(prList.items) > 0) =>
        /\ \A i, j \in 1..Len(allPossibleStates) :
             i # j => allPossibleStates[i] # allPossibleStates[j]
        /\ \A j, k \in 1..Len(ch) :
             j # k =>
                << ch[j].namespace, ch[j].name, ch[j].status,
                   ch[j].build_platform >> #
                << ch[k].namespace, ch[k].name, ch[k].status,
                   ch[k].build_platform >>

====
